---- MODULE Spec2Model ----
(***************************************************************************)
(* IrregularExpression (src/mod.ts): a fluent builder that accumulates a   *)
(* pattern string, an insertion-ordered flag set and an optional match     *)
(* cap, and hands them to the host's RegExp engine.                        *)
(*                                                                         *)
(* Strings are sequences of one-character strings, so that escaping,       *)
(* number formatting and matching are computed character by character.     *)
(* Positions in an input are 0-based offsets as in JavaScript: the         *)
(* character at offset k of s is s[k + 1].                                 *)
(***************************************************************************)
EXTENDS Integers, Sequences, FiniteSets, TLC

\* ------------------------------------------------------------------ bounds

\* Budget of a builder explored by the model: its pattern's length plus two
\* for every flag added, for a cap and for a listener.
MaxSize == 5

\* Longest text handed to literal() in the specification of escaping.
MaxTextLen == 2

\* Iterations of execute's loop the model follows before it stops looking.
MaxIter == 6

\* Most grouping callbacks running inside one another.
MaxDepth == 2

\* Most builders handed to combine where it combines whole words.
MaxWords == 2

\* ------------------------------------------------------------- characters

BS == "\\"

Digits == <<"0", "1", "2", "3", "4", "5", "6", "7", "8", "9">>

LowerLetters == <<"a", "b", "c", "d", "e", "f", "g", "h", "i", "j", "k", "l", "m",
                  "n", "o", "p", "q", "r", "s", "t", "u", "v", "w", "x", "y", "z">>

UpperLetters == <<"A", "B", "C", "D", "E", "F", "G", "H", "I", "J", "K", "L", "M",
                  "N", "O", "P", "Q", "R", "S", "T", "U", "V", "W", "X", "Y", "Z">>

Range(s) == {s[k] : k \in DOMAIN s}

IsDigit(c) == c \in Range(Digits)

IsLetter(c) == c \in Range(LowerLetters) \cup Range(UpperLetters)

IsWordChar(c) == IsLetter(c) \/ IsDigit(c) \/ c = "_"

IsSpace(c) == c \in {" ", "\t", "\n", "\r", "\f"}

IsLineTerminator(c) == c \in {"\n", "\r"}

DigitVal(c) == (CHOOSE k \in DOMAIN Digits : Digits[k] = c) - 1

\* Canonicalize of the engine under the i flag: lower case folds to upper.
Canonicalize(c, ignoreCase) ==
    IF ignoreCase /\ c \in Range(LowerLetters)
    THEN UpperLetters[CHOOSE k \in DOMAIN LowerLetters : LowerLetters[k] = c]
    ELSE c

Max(a, b) == IF a >= b THEN a ELSE b

Min(a, b) == IF a <= b THEN a ELSE b

Take(s, n) == SubSeq(s, 1, Min(n, Len(s)))

RECURSIVE Flatten(_)
Flatten(ss) == IF ss = <<>> THEN <<>> ELSE Head(ss) \o Flatten(Tail(ss))

\* All sequences over alphabet of length at most n.
RECURSIVE SeqsUpTo(_, _)
SeqsUpTo(alphabet, n) ==
    IF n = 0 THEN {<<>>}
    ELSE LET shorter == SeqsUpTo(alphabet, n - 1)
         IN  shorter \cup {Append(s, c) : s \in shorter, c \in alphabet}

\* ---------------------------------------------------------------- numbers

\* A JavaScript number argument: NaN, or the finite value h / 2 (so that
\* non-integers such as 0.5 and 1.5 are among the arguments).
Num(h) == [nan |-> FALSE, h |-> h]

Int2Num(n) == Num(2 * n)

NaN == [nan |-> TRUE, h |-> 0]

\* Number.isInteger
IsInteger(x) == ~x.nan /\ x.h % 2 = 0

\* x < y and x <= y of JavaScript: false when either side is NaN.
Lt(x, y) == ~x.nan /\ ~y.nan /\ x.h < y.h

Le(x, y) == ~x.nan /\ ~y.nan /\ x.h <= y.h

IntValue(x) == x.h \div 2

\* The decimal digits of a non-negative integer, as template literals
\* `${n}` render it.
RECURSIVE NatToString(_)
NatToString(n) ==
    IF n < 10 THEN <<Digits[n + 1]>>
    ELSE NatToString(n \div 10) \o <<Digits[(n % 10) + 1]>>

\* `${x}`: "NaN", or the decimal rendering of h / 2 with its sign and,
\* for an odd h, the fraction ".5".
NumToString(x) ==
    IF x.nan THEN <<"N", "a", "N">>
    ELSE LET a == IF x.h < 0 THEN -x.h ELSE x.h
         IN  (IF x.h < 0 THEN <<"-">> ELSE <<>>)
             \o NatToString(a \div 2)
             \o (IF a % 2 = 1 THEN <<".", "5">> ELSE <<>>)

\* --------------------------------------------------------------- escaping

\* The character class of escapeRegExp: . * + ? ^ $ { } ( ) | [ ] \
MetaChars == {".", "*", "+", "?", "^", "$", "{", "}", "(", ")", "|", "[", "]", BS}

EscapeDroppingBackslash(text) ==
    Flatten([k \in DOMAIN text |->
        IF text[k] \in MetaChars \ {BS} THEN <<BS, text[k]>> ELSE <<text[k]>>])

\* text.replace(/[.*+?^${}()|[\]\\]/g, '\\$&')
EscapeRegExp(text) ==
    Flatten([k \in DOMAIN text |->
        IF text[k] \in MetaChars THEN <<BS, text[k]>> ELSE <<text[k]>>])

EscapeNothing(str) == str

\* escapeSpecialChars: str.replace(/[.*+?^${}()|[\]\\]/g, '\\$&')
EscapeSpecialChars(str) ==
    Flatten([k \in DOMAIN str |->
        IF str[k] \in MetaChars THEN <<BS, str[k]>> ELSE <<str[k]>>])

\* ------------------------------------------------------------ the engine
\* The host's RegExp, as far as the builder uses it: new RegExp(source,
\* flags) parses the pattern or throws a SyntaxError; exec and test run a
\* backtracking match.  The grammar covers what the builder's operations
\* and its sentinel produce: characters, identity and class escapes,
\* assertions, groups, lookarounds, alternation and quantifiers.  Bracket
\* expressions and backreferences are not compiled in the specifications
\* below and are rejected by this parser.
\*
\* An intermediate result is handed on as an operator argument rather than
\* named in a LET, so that it is computed once.

At(p, i) == IF i >= 1 /\ i <= Len(p) THEN p[i] ELSE ""

Fail(msg, i) == [ok |-> FALSE, err |-> msg, i |-> i]

\* The decimal number starting at p[i]: its value, the index after it, and
\* whether any digit was read.
RECURSIVE ScanDigits(_, _, _, _)
ScanDigits(p, i, acc, any) ==
    IF IsDigit(At(p, i))
    THEN ScanDigits(p, i + 1, 10 * acc + DigitVal(p[i]), TRUE)
    ELSE [n |-> acc, i |-> i, any |-> any]

BracedHigh(p, lo, hi) ==
    IF hi.any /\ At(p, hi.i) = "}"
    THEN [ok |-> TRUE, min |-> lo.n, max |-> hi.n, i |-> hi.i + 1]
    ELSE [ok |-> FALSE]

BracedLow(p, lo) ==
    IF ~lo.any THEN [ok |-> FALSE]
    ELSE IF At(p, lo.i) = "}"
         THEN [ok |-> TRUE, min |-> lo.n, max |-> lo.n, i |-> lo.i + 1]
    ELSE IF At(p, lo.i) # "," THEN [ok |-> FALSE]
    ELSE IF At(p, lo.i + 1) = "}"
         THEN [ok |-> TRUE, min |-> lo.n, max |-> -1, i |-> lo.i + 2]
    ELSE BracedHigh(p, lo, ScanDigits(p, lo.i + 1, 0, FALSE))

\* A braced quantifier {n}, {n,} or {n,m} starting at p[i] = "{"; max = -1
\* stands for no upper limit.
ParseBraced(p, i) == BracedLow(p, ScanDigits(p, i + 1, 0, FALSE))

NoQuantifier(i) == [has |-> FALSE, min |-> 1, max |-> 1, i |-> i]

BracedQuantifier(braced, i) ==
    IF braced.ok
    THEN [has |-> TRUE, min |-> braced.min, max |-> braced.max, i |-> braced.i]
    ELSE NoQuantifier(i)

\* The optional lazy suffix "?" of a quantifier.
WithLaziness(p, q) ==
    IF q.has /\ At(p, q.i) = "?"
    THEN [has |-> TRUE, min |-> q.min, max |-> q.max, greedy |-> FALSE, i |-> q.i + 1]
    ELSE [has |-> q.has, min |-> q.min, max |-> q.max, greedy |-> TRUE, i |-> q.i]

\* The quantifier, if any, at p[i].
ParseQuantifier(p, i) ==
    WithLaziness(p,
        CASE At(p, i) = "*" -> [has |-> TRUE, min |-> 0, max |-> -1, i |-> i + 1]
          [] At(p, i) = "+" -> [has |-> TRUE, min |-> 1, max |-> -1, i |-> i + 1]
          [] At(p, i) = "?" -> [has |-> TRUE, min |-> 0, max |-> 1, i |-> i + 1]
          [] At(p, i) = "{" -> BracedQuantifier(ParseBraced(p, i), i)
          [] OTHER -> NoQuantifier(i))

Quantify(node, i, q) ==
    IF ~q.has THEN [ok |-> TRUE, node |-> node, i |-> i]
    ELSE IF q.max # -1 /\ q.min > q.max
         THEN Fail("numbers out of order in {} quantifier", i)
    ELSE [ok |-> TRUE, i |-> q.i,
          node |-> [t |-> "rep", x |-> node, min |-> q.min, max |-> q.max,
                    greedy |-> q.greedy]]

\* An atom followed by its quantifier.
Quantified(p, node, i) == Quantify(node, i, ParseQuantifier(p, i))

\* The group name starting at p[i], up to ">".
RECURSIVE ScanName(_, _, _)
ScanName(p, i, acc) ==
    IF At(p, i) = ">" THEN [ok |-> acc # <<>>, i |-> i + 1]
    ELSE IF IsLetter(At(p, i)) \/ At(p, i) \in {"_", "$"} \/ (acc # <<>> /\ IsDigit(At(p, i)))
         THEN ScanName(p, i + 1, Append(acc, p[i]))
    ELSE [ok |-> FALSE, i |-> i]

RECURSIVE ParseDisjunction(_, _, _)
RECURSIVE ParseAlternative(_, _, _)
RECURSIVE ParseTerm(_, _, _)
RECURSIVE ParseGroup(_, _, _)

\* \ followed by p[i]: an assertion, a class escape or an identity escape.
ParseEscape(p, i, u) ==
    LET e == At(p, i)
    IN  IF e = "" THEN Fail("\\ at end of pattern", i)
        ELSE IF e = "b" THEN [ok |-> TRUE, node |-> [t |-> "wordBoundary", neg |-> FALSE], i |-> i + 1]
        ELSE IF e = "B" THEN [ok |-> TRUE, node |-> [t |-> "wordBoundary", neg |-> TRUE], i |-> i + 1]
        ELSE IF e \in {"d", "D", "w", "W", "s", "S"}
             THEN Quantified(p, [t |-> "class", k |-> e], i + 1)
        ELSE IF e \in MetaChars \cup {"/"}
             THEN Quantified(p, [t |-> "char", c |-> e], i + 1)
        ELSE IF IsDigit(e) \/ IsLetter(e) THEN Fail("escape outside the modelled grammar", i)
        ELSE IF u THEN Fail("Invalid escape", i)
        ELSE Quantified(p, [t |-> "char", c |-> e], i + 1)

\* The kind of the group opening at p[i] = "(".
GroupKind(p, i) ==
    CASE At(p, i + 1) # "?" -> "capture"
      [] At(p, i + 2) = ":" -> "nonCapturing"
      [] At(p, i + 2) = "=" -> "lookahead"
      [] At(p, i + 2) = "!" -> "negativeLookahead"
      [] At(p, i + 2) = "<" /\ At(p, i + 3) = "=" -> "lookbehind"
      [] At(p, i + 2) = "<" /\ At(p, i + 3) = "!" -> "negativeLookbehind"
      [] At(p, i + 2) = "<" -> "named"
      [] OTHER -> "invalid"

\* The group once its body is parsed.  Lookbehinds are never quantifiable;
\* lookaheads only without the u flag.
CloseGroup(p, i, u, kind, body) ==
    IF ~body.ok THEN body
    ELSE IF At(p, body.i) # ")" THEN Fail("Unterminated group", i)
    ELSE IF kind \in {"capture", "named", "nonCapturing"}
         THEN Quantified(p, [t |-> "group", alts |-> body.alts], body.i + 1)
    ELSE IF kind \in {"lookahead", "negativeLookahead"}
         THEN IF u THEN [ok |-> TRUE, i |-> body.i + 1,
                         node |-> [t |-> "look", ahead |-> TRUE,
                                   neg |-> kind = "negativeLookahead", alts |-> body.alts]]
              ELSE Quantified(p, [t |-> "look", ahead |-> TRUE,
                                  neg |-> kind = "negativeLookahead", alts |-> body.alts],
                              body.i + 1)
    ELSE [ok |-> TRUE, i |-> body.i + 1,
          node |-> [t |-> "look", ahead |-> FALSE,
                    neg |-> kind = "negativeLookbehind", alts |-> body.alts]]

NamedGroup(p, i, u, name) ==
    IF ~name.ok THEN Fail("Invalid capture group name", i)
    ELSE CloseGroup(p, i, u, "named", ParseDisjunction(p, name.i, u))

\* A group opening at p[i] = "(": capturing, named, non-capturing or a
\* lookaround.
ParseGroup(p, i, u) ==
    CASE GroupKind(p, i) = "invalid" -> Fail("Invalid group", i)
      [] GroupKind(p, i) = "named" -> NamedGroup(p, i, u, ScanName(p, i + 3, <<>>))
      [] GroupKind(p, i) = "capture" ->
            CloseGroup(p, i, u, "capture", ParseDisjunction(p, i + 1, u))
      [] GroupKind(p, i) \in {"lookbehind", "negativeLookbehind"} ->
            CloseGroup(p, i, u, GroupKind(p, i), ParseDisjunction(p, i + 4, u))
      [] OTHER -> CloseGroup(p, i, u, GroupKind(p, i), ParseDisjunction(p, i + 3, u))

\* One term starting at p[i] (which is neither "|" nor ")" nor the end).
ParseTerm(p, i, u) ==
    LET c == At(p, i)
    IN  CASE c = "^" -> [ok |-> TRUE, node |-> [t |-> "startOfLine"], i |-> i + 1]
          [] c = "$" -> [ok |-> TRUE, node |-> [t |-> "endOfLine"], i |-> i + 1]
          [] c = "." -> Quantified(p, [t |-> "any"], i + 1)
          [] c = BS -> ParseEscape(p, i + 1, u)
          [] c = "(" -> ParseGroup(p, i, u)
          [] c \in {"*", "+", "?"} -> Fail("Nothing to repeat", i)
          [] c = "{" -> IF u \/ ParseBraced(p, i).ok THEN Fail("Nothing to repeat", i)
                        ELSE Quantified(p, [t |-> "char", c |-> c], i + 1)
          [] c \in {"}", "]"} -> IF u THEN Fail("Lone quantifier brackets", i)
                                 ELSE Quantified(p, [t |-> "char", c |-> c], i + 1)
          [] c = "[" -> Fail("bracket expression outside the modelled grammar", i)
          [] OTHER -> Quantified(p, [t |-> "char", c |-> c], i + 1)

JoinTerms(term, rest) ==
    IF ~rest.ok THEN rest
    ELSE [ok |-> TRUE, xs |-> <<term.node>> \o rest.xs, i |-> rest.i]

AfterTerm(p, u, term) ==
    IF ~term.ok THEN term ELSE JoinTerms(term, ParseAlternative(p, term.i, u))

\* The terms up to the next "|", ")" or the end.
ParseAlternative(p, i, u) ==
    IF At(p, i) \in {"", "|", ")"} THEN [ok |-> TRUE, xs |-> <<>>, i |-> i]
    ELSE AfterTerm(p, u, ParseTerm(p, i, u))

JoinAlternatives(alt, rest) ==
    IF ~rest.ok THEN rest
    ELSE [ok |-> TRUE, alts |-> <<alt.xs>> \o rest.alts, i |-> rest.i]

AfterAlternative(p, u, alt) ==
    IF ~alt.ok THEN alt
    ELSE IF At(p, alt.i) # "|" THEN [ok |-> TRUE, alts |-> <<alt.xs>>, i |-> alt.i]
    ELSE JoinAlternatives(alt, ParseDisjunction(p, alt.i + 1, u))

\* Alternatives separated by "|".
ParseDisjunction(p, i, u) == AfterAlternative(p, u, ParseAlternative(p, i, u))

WholePattern(p, d) ==
    IF ~d.ok THEN d
    ELSE IF d.i # Len(p) + 1 THEN Fail("Unmatched ')'", d.i)
    ELSE d

\* The whole pattern: a disjunction that consumes every character.
ParsePattern(p, u) == WholePattern(p, ParseDisjunction(p, 1, u))

\* Whether offset k of s holds a word character (\b looks at both sides).
IsWordAt(s, k) == k >= 0 /\ k < Len(s) /\ IsWordChar(s[k + 1])

ClassHas(k, c) ==
    CASE k = "d" -> IsDigit(c)
      [] k = "D" -> ~IsDigit(c)
      [] k = "w" -> IsWordChar(c)
      [] k = "W" -> ~IsWordChar(c)
      [] k = "s" -> IsSpace(c)
      [] k = "S" -> ~IsSpace(c)

RECURSIVE MatchNode(_, _, _, _)
RECURSIVE MatchSeq(_, _, _, _)
RECURSIVE MatchAlts(_, _, _, _)
RECURSIVE MatchRep(_, _, _, _, _, _, _)

ContinueSeq(rest, s, fl, ends) ==
    Flatten([k \in DOMAIN ends |-> MatchSeq(rest, s, ends[k], fl)])

\* The end offsets at which the terms xs, matched one after the other from
\* offset i of s, can stop, in the order backtracking tries them.
MatchSeq(xs, s, i, fl) ==
    IF xs = <<>> THEN <<i>>
    ELSE ContinueSeq(Tail(xs), s, fl, MatchNode(Head(xs), s, i, fl))

\* The alternatives are tried left to right.
MatchAlts(alts, s, i, fl) ==
    Flatten([k \in DOMAIN alts |-> MatchSeq(alts[k], s, i, fl)])

Repeated(min, greedy, i, more) ==
    IF min > 0 THEN more
    ELSE IF greedy THEN Append(more, i)
    ELSE <<i>> \o more

Iterate(x, min, max, greedy, s, i, fl, ends) ==
    Repeated(min, greedy, i,
        Flatten([k \in DOMAIN ends |->
            IF min = 0 /\ ends[k] = i THEN <<>>
            ELSE MatchRep(x, Max(min - 1, 0), IF max = -1 THEN -1 ELSE max - 1,
                          greedy, s, ends[k], fl)]))

\* x repeated min..max times (max = -1: no limit).  Once min is reached an
\* iteration that matches the empty string is rejected, as the engine does.
MatchRep(x, min, max, greedy, s, i, fl) ==
    IF max = 0 THEN <<i>>
    ELSE Iterate(x, min, max, greedy, s, i, fl, MatchNode(x, s, i, fl))

MatchNode(node, s, i, fl) ==
    CASE node.t = "char" ->
            IF i < Len(s) /\ Canonicalize(s[i + 1], fl.ignoreCase)
                               = Canonicalize(node.c, fl.ignoreCase)
            THEN <<i + 1>> ELSE <<>>
      [] node.t = "class" ->
            IF i < Len(s) /\ ClassHas(node.k, s[i + 1]) THEN <<i + 1>> ELSE <<>>
      [] node.t = "any" ->
            IF i < Len(s) /\ (fl.dotAll \/ ~IsLineTerminator(s[i + 1]))
            THEN <<i + 1>> ELSE <<>>
      [] node.t = "startOfLine" ->
            IF i = 0 \/ (fl.multiline /\ IsLineTerminator(s[i])) THEN <<i>> ELSE <<>>
      [] node.t = "endOfLine" ->
            IF i = Len(s) \/ (fl.multiline /\ IsLineTerminator(s[i + 1]))
            THEN <<i>> ELSE <<>>
      [] node.t = "wordBoundary" ->
            IF (IsWordAt(s, i - 1) # IsWordAt(s, i)) # node.neg THEN <<i>> ELSE <<>>
      [] node.t = "group" -> MatchAlts(node.alts, s, i, fl)
      [] node.t = "look" ->
            IF (IF node.ahead THEN MatchAlts(node.alts, s, i, fl) # <<>>
                ELSE \E j \in 0..i : i \in Range(MatchAlts(node.alts, s, j, fl)))
               # node.neg
            THEN <<i>> ELSE <<>>
      [] node.t = "rep" ->
            MatchRep(node.x, node.min, node.max, node.greedy, s, i, fl)

RECURSIVE Search(_, _, _, _)

FoundAt(alts, s, from, fl, ends) ==
    IF ends # <<>> THEN <<[index |-> from, end |-> ends[1]]>>
    ELSE Search(alts, s, from + 1, fl)

\* The first match of the alternatives alts in s starting at offset from
\* or later: <<[index, end]>>, or <<>> when there is none.
Search(alts, s, from, fl) ==
    IF from > Len(s) THEN <<>>
    ELSE FoundAt(alts, s, from, fl, MatchAlts(alts, s, from, fl))

\* The flag characters the engine accepts, in the order its flags property
\* lists them.
EngineFlagOrder == <<"d", "g", "i", "m", "s", "u", "v", "y">>

Compiled(source, flagString, parsed) ==
    IF ~parsed.ok THEN [threw |-> TRUE, message |-> parsed.err]
    ELSE [threw |-> FALSE,
          source |-> source,
          flags |-> SelectSeq(EngineFlagOrder, LAMBDA c : c \in Range(flagString)),
          alts |-> parsed.alts,
          lastIndex |-> 0]

\* new RegExp(source, flags): a SyntaxError for an unknown or repeated flag
\* or a malformed pattern, otherwise the expression with lastIndex 0.  Its
\* flags property lists the flags in the engine's order; alts is the
\* parsed pattern the expression matches with.
NewRegExp(source, flagString) ==
    IF /\ \A k \in DOMAIN flagString : flagString[k] \in Range(EngineFlagOrder)
       /\ \A j, k \in DOMAIN flagString : j # k => flagString[j] # flagString[k]
    THEN Compiled(source, flagString, ParsePattern(source, "u" \in Range(flagString)))
    ELSE [threw |-> TRUE, message |-> "Invalid flags"]

MatchFlags(regex) ==
    [ignoreCase |-> "i" \in Range(regex.flags),
     multiline |-> "m" \in Range(regex.flags),
     dotAll |-> "s" \in Range(regex.flags)]

IsGlobal(regex) == "g" \in Range(regex.flags)

Executed(regex, found) ==
    IF found = <<>>
    THEN [match |-> <<>>, regex |-> [regex EXCEPT !.lastIndex = 0]]
    ELSE [match |-> found,
          regex |-> IF IsGlobal(regex) THEN [regex EXCEPT !.lastIndex = found[1].end]
                    ELSE regex]

\* regex.exec(input): the search starts at lastIndex when the g flag is
\* set and at 0 otherwise; a match moves lastIndex to its end (g only), a
\* failure resets it to 0.  Returns the match (<<>> for null) and the
\* expression with its new lastIndex.
RegExpExec(regex, in) ==
    Executed(regex, Search(regex.alts, in,
                           IF IsGlobal(regex) THEN regex.lastIndex ELSE 0,
                           MatchFlags(regex)))

\* regex.test(input) is exec(input) !== null.
RegExpTest(regex, in) == RegExpExec(regex, in).match # <<>>

\* ------------------------------------------------------------ the builder

VARIABLES
    pattern,    \* this.pattern: the accumulated pattern
    flags,      \* this.flags: a Set<string>, kept in insertion order
    maxRun,     \* this.maxRun: <<>> for null, <<c>> for the number c
    listeners,  \* number of "error" listeners registered on the builder
    op,         \* the last public call: [name, args]
    ret,        \* what that call returned: [kind, ...]
    fired,      \* the events that call dispatched, in order
    threw,      \* whether that call ended by throwing
    pc,         \* "idle", or "execute" while execute's loop is running
    input,      \* execute's input
    regex,      \* execute's compiled expression, lastIndex included
    matches,    \* execute's matches so far
    count,      \* execute's count
    stack       \* the grouping calls whose callback is running, outermost first

builder == <<pattern, flags, maxRun, listeners>>

call == <<op, ret, fired, threw>>

frame == <<pc, input, regex, matches, count, stack>>

vars == <<pattern, flags, maxRun, listeners, op, ret, fired, threw,
          pc, input, regex, matches, count, stack>>

\* ------------------------------------------------------------ arguments

\* Texts handed to literal() in a chain.
ChainTexts == {<<"a">>, <<".">>}

\* Numbers handed to runTimes: -1, 0, 0.5, 1, 2, NaN.
RunArgs == {Num(-2), Num(0), Num(1), Num(2), Num(4), NaN}

\* Numbers handed to exactly and atLeast: -1, 0, 0.5, 1, 2.
NumArgs == {Num(-2), Num(0), Num(1), Num(2), Num(4)}

\* Pairs handed to between: (0,0), (0,1), (1,1), and the rejected (1,0),
\* (-1,1), (0.5,1) and (0,0.5).
BetweenArgs ==
    {<<Num(0), Num(0)>>, <<Num(0), Num(2)>>, <<Num(2), Num(2)>>, <<Num(2), Num(0)>>,
     <<Num(-2), Num(2)>>, <<Num(1), Num(2)>>, <<Num(0), Num(1)>>}

\* Inputs handed to test and execute.
Inputs == {<<>>, <<"a", "1">>, <<"1", "1", "a", "1">>, <<"A", "\n", "a">>}

\* Characters of the texts handed to literal() where escaping is checked:
\* every metacharacter and two ordinary characters.
TextAlphabet == MetaChars \cup {"a", "-"}

\* -------------------------------------------------------------- helpers

None == [kind |-> "none"]

This == [kind |-> "this"]

Event(message) == [type |-> "error", target |-> "builder", detail |-> message]

EmitErrorThrowing(message) == [fired |-> <<Event(message)>>, threw |-> TRUE]

\* emitError: dispatchEvent delivers a CustomEvent to the listeners and
\* returns; it does not throw, with or without listeners.  A message is
\* the sequence of its parts: the fixed text and, for a caught error, the
\* error's own message.
EmitError(message) == [fired |-> <<Event(message)>>, threw |-> FALSE]

\* What the listeners registered on the builder saw of the last call.
Observed == IF listeners > 0 THEN fired ELSE <<>>

OwnSize(p, f, m, l) == Len(p) + 2 * ((Len(f) - 1) + Len(m)) + 3 * l

\* Its depth for each running callback, and the size of the builder that
\* waits for it when the callback works on a child.
RECURSIVE Pending(_)
Pending(st) ==
    IF st = <<>> THEN 0
    ELSE Len(st) + Pending(SubSeq(st, 1, Len(st) - 1))
         + (IF st[Len(st)].parent = <<>> THEN 0
            ELSE OwnSize(st[Len(st)].parent[1].pattern, st[Len(st)].parent[1].flags,
                         st[Len(st)].parent[1].maxRun, st[Len(st)].parent[1].listeners))

Size(p, f, m, l) == OwnSize(p, f, m, l) + Pending(stack)

\* Within the budget, or the first fragment of a fresh builder.
Fits(p, f, m, l) ==
    \/ Size(p, f, m, l) <= MaxSize
    \/ pattern = <<>> /\ f = <<"g">> /\ m = <<>> /\ l = 0 /\ stack = <<>>

FlagStringDefaultOnly(f) == <<"g">>

\* Array.from(this.flags).join(''): the flags in insertion order.
FlagString(f) == f

\* Set.prototype.add: a member already present keeps its place.
SetAdd(f, c) == IF c \in Range(f) THEN f ELSE Append(f, c)

AddFlagAlways(f, c) == Append(f, c)

\* if (!this.flags.has(c)) this.flags.add(c)
AddFlag(f, c) == IF c \in Range(f) THEN f ELSE SetAdd(f, c)

Idle == pc = "idle"

\* A chainable call that returns this.
Returned(name, args, emitted) ==
    /\ op' = [name |-> name, args |-> args]
    /\ ret' = This
    /\ fired' = emitted.fired
    /\ threw' = emitted.threw
    /\ UNCHANGED frame

Silent == [fired |-> <<>>, threw |-> FALSE]

Init ==
    /\ pattern = <<>>
    /\ flags = <<"g">>
    /\ maxRun = <<>>
    /\ listeners = 0
    /\ op = [name |-> "match", args |-> <<>>]
    /\ ret = This
    /\ fired = <<>>
    /\ threw = FALSE
    /\ pc = "idle"
    /\ input = <<>>
    /\ regex = None
    /\ matches = <<>>
    /\ count = 0
    /\ stack = <<>>

\* addEventListener("error", ...) / removeEventListener, inherited from
\* EventTarget.
AddEventListener ==
    /\ Idle
    /\ Fits(pattern, flags, maxRun, listeners + 1)
    /\ listeners' = listeners + 1
    /\ op' = [name |-> "addEventListener", args |-> <<>>]
    /\ ret' = None
    /\ fired' = <<>>
    /\ threw' = FALSE
    /\ UNCHANGED <<pattern, flags, maxRun, frame>>

RemoveEventListener ==
    /\ Idle
    /\ listeners > 0
    /\ listeners' = listeners - 1
    /\ op' = [name |-> "removeEventListener", args |-> <<>>]
    /\ ret' = None
    /\ fired' = <<>>
    /\ threw' = FALSE
    /\ UNCHANGED <<pattern, flags, maxRun, frame>>

\* The four flag methods.
SetFlag(name, c) ==
    /\ Idle
    /\ Fits(pattern, AddFlag(flags, c), maxRun, listeners)
    /\ flags' = AddFlag(flags, c)
    /\ Returned(name, <<>>, Silent)
    /\ UNCHANGED <<pattern, maxRun, listeners>>

IgnoreCase == SetFlag("ignoreCase", "i")

Multiline == SetFlag("multiline", "m")

DotAll == SetFlag("dotAll", "s")

Unicode == SetFlag("unicode", "u")

RunTimesInvalidNonPositive(c) == Le(c, Num(0))

\* count <= 0 || !Number.isInteger(count)
RunTimesInvalid(c) == Le(c, Num(0)) \/ ~IsInteger(c)

RunTimes(c) ==
    /\ Idle
    /\ IF RunTimesInvalid(c)
       THEN /\ Returned("runTimes", <<c>>, EmitError(<<"runTimes expects a positive integer.">>))
            /\ UNCHANGED builder
       ELSE /\ Fits(pattern, flags, <<IntValue(c)>>, listeners)
            /\ maxRun' = <<IntValue(c)>>
            /\ Returned("runTimes", <<c>>, Silent)
            /\ UNCHANGED <<pattern, flags, listeners>>

\* this.pattern += fragment; return this
AppendFragment(name, args, fragment) ==
    /\ Idle
    /\ Fits(pattern \o fragment, flags, maxRun, listeners)
    /\ pattern' = pattern \o fragment
    /\ Returned(name, args, Silent)
    /\ UNCHANGED <<flags, maxRun, listeners>>

\* A rejected argument: the failure is reported and this is returned.
Reject(name, args, message) ==
    /\ Idle
    /\ Returned(name, args, EmitError(<<message>>))
    /\ UNCHANGED builder

ZeroOrMore == AppendFragment("zeroOrMore", <<>>, <<"*">>)

OneOrMore == AppendFragment("oneOrMore", <<>>, <<"+">>)

Digit == AppendFragment("digit", <<>>, <<BS, "d">>)

Literal(text) == AppendFragment("literal", <<text>>, EscapeRegExp(text))

QuantifierInvalidZero(n) == ~IsInteger(n) \/ Le(n, Num(0))

\* !Number.isInteger(n) || n < 0
QuantifierInvalid(n) == ~IsInteger(n) \/ Lt(n, Num(0))

ExactlyFragment(n) == <<"{">> \o NumToString(n) \o <<"}">>

Exactly(n) ==
    IF QuantifierInvalid(n)
    THEN Reject("exactly", <<n>>, "exactly expects a non-negative integer.")
    ELSE AppendFragment("exactly", <<n>>, ExactlyFragment(n))

AtLeastFragment(n) == <<"{">> \o NumToString(n) \o <<",", "}">>

AtLeast(n) ==
    IF QuantifierInvalid(n)
    THEN Reject("atLeast", <<n>>, "atLeast expects a non-negative integer.")
    ELSE AppendFragment("atLeast", <<n>>, AtLeastFragment(n))

BetweenInvalidUnordered(n, m) == ~IsInteger(n) \/ ~IsInteger(m) \/ Lt(n, Num(0))

\* !Number.isInteger(n) || !Number.isInteger(m) || n < 0 || m < n
BetweenInvalid(n, m) == ~IsInteger(n) \/ ~IsInteger(m) \/ Lt(n, Num(0)) \/ Lt(m, n)

BetweenFragment(n, m) == <<"{">> \o NumToString(n) \o <<",">> \o NumToString(m) \o <<"}">>

Between(n, m) ==
    IF BetweenInvalid(n, m)
    THEN Reject("between", <<n, m>>, "between expects two non-negative integers where m >= n.")
    ELSE AppendFragment("between", <<n, m>>, BetweenFragment(n, m))

\* The expression build() falls back to: new RegExp('(?!x)x').
SentinelSource == <<"(", "?", "!", "x", ")", "x">>

\* The catch block of build(): emitError(...); return new
\* RegExp('(?!x)x').
Caught(emitted, sentinel) ==
    IF emitted.threw THEN [regex |-> None, fired |-> emitted.fired, threw |-> TRUE]
    ELSE IF sentinel.threw THEN [regex |-> None, fired |-> emitted.fired, threw |-> TRUE]
    ELSE [regex |-> sentinel, fired |-> emitted.fired, threw |-> FALSE]

TryNewRegExpUncaught(made) ==
    IF made.threw THEN [regex |-> None, fired |-> <<>>, threw |-> TRUE]
    ELSE [regex |-> made, fired |-> <<>>, threw |-> FALSE]

\* try { return new RegExp(...) } catch (error) { ... }: the event's detail
\* is "Invalid regex pattern: " followed by the engine's message.
TryNewRegExp(made) ==
    IF ~made.threw THEN [regex |-> made, fired |-> <<>>, threw |-> FALSE]
    ELSE Caught(EmitError(<<"Invalid regex pattern: ", made.message>>),
                NewRegExp(SentinelSource, <<>>))

\* build(): the expression returned, the events dispatched, and whether
\* the call threw.
BuildResult(p, f) == TryNewRegExp(NewRegExp(p, FlagString(f)))

BuildResetting ==
    /\ Idle
    /\ \E built \in {BuildResult(pattern, flags)} :
           /\ ret' = IF built.threw THEN None ELSE [kind |-> "regex", value |-> built.regex]
           /\ fired' = built.fired
           /\ threw' = built.threw
    /\ op' = [name |-> "build", args |-> <<>>]
    /\ pattern' = <<>>
    /\ UNCHANGED <<flags, maxRun, listeners, frame>>

Build ==
    /\ Idle
    /\ \E built \in {BuildResult(pattern, flags)} :
           /\ ret' = IF built.threw THEN None ELSE [kind |-> "regex", value |-> built.regex]
           /\ fired' = built.fired
           /\ threw' = built.threw
    /\ op' = [name |-> "build", args |-> <<>>]
    /\ UNCHANGED <<builder, frame>>

\* test(input): try { return this.build().test(input) } catch (error) {
\* emitError(...); return false }
TestCaught(built, emitted) ==
    [value |-> FALSE, fired |-> built.fired \o emitted.fired, threw |-> emitted.threw]

TestBuilt(built, in) ==
    IF ~built.threw
    THEN [value |-> RegExpTest(built.regex, in), fired |-> built.fired, threw |-> FALSE]
    ELSE TestCaught(built, EmitError(<<"Test failed: ", "thrown">>))

TestResult(p, f, in) == TestBuilt(BuildResult(p, f), in)

Test(in) ==
    /\ Idle
    /\ \E tested \in {TestResult(pattern, flags, in)} :
           /\ ret' = IF tested.threw THEN None ELSE [kind |-> "boolean", value |-> tested.value]
           /\ fired' = tested.fired
           /\ threw' = tested.threw
    /\ op' = [name |-> "test", args |-> <<in>>]
    /\ UNCHANGED <<builder, frame>>

\* A RegExpExecArray, as far as its position goes: the offset of the match
\* and its text, match[0].
MatchRecord(in, found) ==
    [index |-> found.index, text |-> SubSeq(in, found.index + 1, found.end)]

\* execute(input), up to the loop: const regex = this.build(); matches =
\* []; count = 0.
Execute(in) ==
    /\ Idle
    /\ \E built \in {BuildResult(pattern, flags)} :
           /\ fired' = built.fired
           /\ threw' = built.threw
           /\ regex' = built.regex
           /\ pc' = IF built.threw THEN "idle" ELSE "execute"
    /\ op' = [name |-> "execute", args |-> <<in>>]
    /\ ret' = None
    /\ input' = in
    /\ matches' = <<>>
    /\ count' = 0
    /\ UNCHANGED <<builder, stack>>

\* this.maxRun !== null && count >= this.maxRun
Break(m, c) == m # <<>> /\ c >= m[1]

\* One evaluation of while ((match = regex.exec(input)) !== null) and, on
\* a match, of the loop's body; when the loop ends, return matches.
ExecuteLoop ==
    /\ pc = "execute"
    /\ count < MaxIter
    /\ \E step \in {RegExpExec(regex, input)} :
           IF step.match # <<>> /\ ~Break(maxRun, count + 1)
           THEN /\ regex' = step.regex
                /\ matches' = Append(matches, MatchRecord(input, step.match[1]))
                /\ count' = count + 1
                /\ UNCHANGED <<pc, input, ret>>
           ELSE /\ ret' = [kind |-> "matches",
                           value |-> IF step.match = <<>> THEN matches
                                     ELSE Append(matches, MatchRecord(input, step.match[1]))]
                /\ pc' = "idle"
                /\ regex' = None
                /\ input' = <<>>
                /\ matches' = <<>>
                /\ count' = 0
    /\ UNCHANGED <<builder, op, fired, threw, stack>>

\* expr.flags.forEach(flag => combined.flags.add(flag))
RECURSIVE AddAll(_, _)
AddAll(f, cs) == IF cs = <<>> THEN f ELSE AddAll(SetAdd(f, Head(cs)), Tail(cs))

RECURSIVE CombinedSeparated(_, _)
CombinedSeparated(acc, exprs) ==
    IF exprs = <<>> THEN acc
    ELSE CombinedSeparated(
             [pattern |-> acc.pattern
                          \o (IF acc.pattern = <<>> THEN <<>> ELSE <<"|">>)
                          \o Head(exprs).pattern,
              flags |-> AddAll(acc.flags, Head(exprs).flags)],
             Tail(exprs))

\* expressions.forEach(expr => { combined.pattern += expr.getPattern();
\* ... }) on a new IrregularExpression().
RECURSIVE Combined(_, _)
Combined(acc, exprs) ==
    IF exprs = <<>> THEN acc
    ELSE Combined([pattern |-> acc.pattern \o Head(exprs).pattern,
                   flags |-> AddAll(acc.flags, Head(exprs).flags)],
                  Tail(exprs))

\* A builder other than the one followed, to combine with:
\* match().literal("a").ignoreCase().
Sample == [pattern |-> <<"a">>, flags |-> <<"g", "i">>]

\* The argument lists of combine: up to two of the followed builder and
\* the sample.
Operands == SeqsUpTo({[pattern |-> pattern, flags |-> flags], Sample}, 2)

\* static combine(...expressions): the model goes on with the builder it
\* returns, which has no cap and no listeners.
Combines(exprs, combined) ==
    /\ Idle
    /\ pattern' = combined.pattern
    /\ flags' = combined.flags
    /\ maxRun' = <<>>
    /\ listeners' = 0
    /\ op' = [name |-> "combine", args |-> exprs]
    /\ ret' = [kind |-> "builder"]
    /\ fired' = <<>>
    /\ threw' = FALSE
    /\ UNCHANGED frame

Combine(exprs) ==
    \E combined \in {Combined([pattern |-> <<>>, flags |-> <<"g">>], exprs)} :
        /\ Fits(combined.pattern, combined.flags, <<>>, 0)
        /\ Combines(exprs, combined)

\* The words of combine's documentation and of the alternation test, and
\* the two of them joined.
Words ==
    {<<"c", "a", "t">>, <<"d", "o", "g">>, <<"b", "i", "r", "d">>,
     <<"c", "a", "t", "d", "o", "g">>}

\* match().literal(word)
LiteralBuilder(word) == [pattern |-> EscapeRegExp(word), flags |-> <<"g">>]

\* combine of up to MaxWords builders of one literal each.
CombineWords(exprs) ==
    Combines(exprs, Combined([pattern |-> <<>>, flags |-> <<"g">>], exprs))

\* The other fragment methods without an argument.
StartOfLine == AppendFragment("startOfLine", <<>>, <<"^">>)

EndOfLine == AppendFragment("endOfLine", <<>>, <<"$">>)

AnySingleCharacter == AppendFragment("anySingleCharacter", <<>>, <<".">>)

ZeroOrOne == AppendFragment("zeroOrOne", <<>>, <<"?">>)

NonDigit == AppendFragment("nonDigit", <<>>, <<BS, "D">>)

WordCharacter == AppendFragment("wordCharacter", <<>>, <<BS, "w">>)

NonWordCharacter == AppendFragment("nonWordCharacter", <<>>, <<BS, "W">>)

Whitespace == AppendFragment("whitespace", <<>>, <<BS, "s">>)

NonWhitespace == AppendFragment("nonWhitespace", <<>>, <<BS, "S">>)

WordBoundaryUnescaped == AppendFragment("wordBoundary", <<>>, <<"b">>)

WordBoundary == AppendFragment("wordBoundary", <<>>, <<BS, "b">>)

\* range(start, end): `[${start}-${end}]`, the arguments as they are.
range(start, end) ==
    AppendFragment("range", <<start, end>>, <<"[">> \o start \o <<"-">> \o end \o <<"]">>)

NotInRange(start, end) ==
    AppendFragment("notInRange", <<start, end>>,
                   <<"[", "^">> \o start \o <<"-">> \o end \o <<"]">>)

AnyOf(chars) ==
    AppendFragment("anyOf", <<chars>>, <<"[">> \o EscapeRegExp(chars) \o <<"]">>)

NoneOf(chars) ==
    AppendFragment("noneOf", <<chars>>, <<"[", "^">> \o EscapeRegExp(chars) \o <<"]">>)

AnyCharacterExcept(chars) ==
    AppendFragment("anyCharacterExcept", <<chars>>,
                   <<"[", "^">> \o EscapeSpecialChars(chars) \o <<"]">>)

BackreferenceInvalidNegative(n) == ~IsInteger(n) \/ Lt(n, Int2Num(0))

\* !Number.isInteger(groupNumber) || groupNumber < 1
BackreferenceInvalid(n) == ~IsInteger(n) \/ Lt(n, Int2Num(1))

\* backreference(groupNumber): `\\${groupNumber}`
Backreference(n) ==
    IF BackreferenceInvalid(n)
    THEN Reject("backreference", <<n>>,
                "backreference expects a positive integer representing the group number.")
    ELSE AppendFragment("backreference", <<n>>, <<BS>> \o NumToString(n))

\* /^[A-Za-z_][A-Za-z0-9_]*$/.test(groupName)
RECURSIVE NameTail(_)
NameTail(name) ==
    \/ name = <<>>
    \/ /\ IsLetter(Head(name)) \/ IsDigit(Head(name)) \/ Head(name) = "_"
       /\ NameTail(Tail(name))

NameMatches(name) ==
    /\ name # <<>>
    /\ IsLetter(Head(name)) \/ Head(name) = "_"
    /\ NameTail(Tail(name))

\* namedBackreference(groupName): `\\k<${groupName}>`
NamedBackreference(name) ==
    IF ~NameMatches(name)
    THEN Reject("namedBackreference", <<name>>,
                "namedBackreference expects a valid group name consisting of letters, numbers, and underscores, not starting with a number.")
    ELSE AppendFragment("namedBackreference", <<name>>,
                        <<BS, "k", "<">> \o name \o <<">">>)

\* getPattern(): return this.pattern
GetPattern ==
    /\ Idle
    /\ op' = [name |-> "getPattern", args |-> <<>>]
    /\ ret' = [kind |-> "string", value |-> pattern]
    /\ fired' = <<>>
    /\ threw' = FALSE
    /\ UNCHANGED <<builder, frame>>

\* The place of a callback in an argument list.
Callback == [callback |-> TRUE]

\* What the builder a callback's caller works on looks like while the
\* callback runs on a child.
Waiting(p) == [pattern |-> p, flags |-> flags, maxRun |-> maxRun, listeners |-> listeners]

EnterChildListening(method, args, before, open, close) ==
    /\ Idle
    /\ Len(stack) < MaxDepth
    /\ Size(pattern \o before, flags, maxRun, listeners) + Len(stack) + 1 <= MaxSize
    /\ stack' = Append(stack, [method |-> method, args |-> args, open |-> open,
                               close |-> close,
                               parent |-> <<Waiting(pattern \o before)>>])
    /\ pattern' = <<>>
    /\ flags' = <<"g">>
    /\ maxRun' = <<>>
    /\ listeners' = listeners
    /\ op' = [name |-> "match", args |-> <<>>]
    /\ ret' = This
    /\ fired' = <<>>
    /\ threw' = FALSE
    /\ UNCHANGED <<pc, input, regex, matches, count>>

\* const groupBuilder = IrregularExpression.match(); callback(groupBuilder):
\* the method stops where it calls the callback, and the model goes on
\* with the child, which the calls of the callback work on.  `before` is
\* what the method appended to this first, `open` and `close` what it
\* will put around the child's pattern.
EnterChild(method, args, before, open, close) ==
    /\ Idle
    /\ Len(stack) < MaxDepth
    /\ Size(pattern \o before, flags, maxRun, listeners) + Len(stack) + 1 <= MaxSize
    /\ stack' = Append(stack, [method |-> method, args |-> args, open |-> open,
                               close |-> close,
                               parent |-> <<Waiting(pattern \o before)>>])
    /\ pattern' = <<>>
    /\ flags' = <<"g">>
    /\ maxRun' = <<>>
    /\ listeners' = 0
    /\ op' = [name |-> "match", args |-> <<>>]
    /\ ret' = This
    /\ fired' = <<>>
    /\ threw' = FALSE
    /\ UNCHANGED <<pc, input, regex, matches, count>>

WrappedUnclosed(before, open, child, close) == before \o open \o child

WrappedAlone(before, open, child, close) == open \o child \o close

\* this.pattern += `(${groupBuilder.getPattern()})`: the parent's pattern
\* with the child's pattern inside the method's own syntax.
Wrapped(before, open, child, close) == before \o open \o child \o close

LeaveChildMerging ==
    /\ Idle
    /\ stack # <<>>
    /\ stack[Len(stack)].parent # <<>>
    /\ \E top \in {stack[Len(stack)]} :
           /\ pattern' = Wrapped(top.parent[1].pattern, top.open, pattern, top.close)
           /\ flags' = AddAll(top.parent[1].flags, flags)
           /\ maxRun' = IF maxRun = <<>> THEN top.parent[1].maxRun ELSE maxRun
           /\ listeners' = top.parent[1].listeners
           /\ op' = [name |-> top.method, args |-> top.args]
    /\ stack' = SubSeq(stack, 1, Len(stack) - 1)
    /\ ret' = This
    /\ fired' = <<>>
    /\ threw' = FALSE
    /\ UNCHANGED <<pc, input, regex, matches, count>>

\* The callback returned: the method appends to this and returns this;
\* the child is dropped.
LeaveChild ==
    /\ Idle
    /\ stack # <<>>
    /\ stack[Len(stack)].parent # <<>>
    /\ \E top \in {stack[Len(stack)]} :
           /\ pattern' = Wrapped(top.parent[1].pattern, top.open, pattern, top.close)
           /\ flags' = top.parent[1].flags
           /\ maxRun' = top.parent[1].maxRun
           /\ listeners' = top.parent[1].listeners
           /\ op' = [name |-> top.method, args |-> top.args]
    /\ stack' = SubSeq(stack, 1, Len(stack) - 1)
    /\ ret' = This
    /\ fired' = <<>>
    /\ threw' = FALSE
    /\ UNCHANGED <<pc, input, regex, matches, count>>

Capture == EnterChild("capture", <<Callback>>, <<>>, <<"(">>, <<")">>)

\* `(?<${name}>${groupBuilder.getPattern()})`: the name goes in as given.
NamedCapture(name) ==
    EnterChild("namedCapture", <<name, Callback>>, <<>>,
               <<"(", "?", "<">> \o name \o <<">">>, <<")">>)

NonCapturingGroup ==
    EnterChild("nonCapturingGroup", <<Callback>>, <<>>, <<"(", "?", ":">>, <<")">>)

PositiveLookahead ==
    EnterChild("positiveLookahead", <<Callback>>, <<>>, <<"(", "?", "=">>, <<")">>)

NegativeLookahead ==
    EnterChild("negativeLookahead", <<Callback>>, <<>>, <<"(", "?", "!">>, <<")">>)

PositiveLookbehind ==
    EnterChild("positiveLookbehind", <<Callback>>, <<>>, <<"(", "?", "<", "=">>, <<")">>)

NegativeLookbehind ==
    EnterChild("negativeLookbehind", <<Callback>>, <<>>, <<"(", "?", "<", "!">>, <<")">>)

\* or(): this.pattern += '|'
Or == AppendFragment("or", <<>>, <<"|">>)

OrCallbackUnseparated == EnterChild("or", <<Callback>>, <<>>, <<>>, <<>>)

\* or(callback): this.pattern += '|', then the callback on a child, then
\* this.pattern += altBuilder.getPattern().
OrCallback == EnterChild("or", <<Callback>>, <<"|">>, <<>>, <<>>)

GroupOnChild == EnterChild("group", <<Callback>>, <<>>, <<"(">>, <<")">>)

\* group(callback): this.pattern += '('; callback(this).  The callback
\* works on the builder group was called on.
Group ==
    /\ Idle
    /\ Len(stack) < MaxDepth
    /\ Size(pattern \o <<"(">>, flags, maxRun, listeners) + Len(stack) + 1 <= MaxSize
    /\ stack' = Append(stack, [method |-> "group", args |-> <<Callback>>, open |-> <<"(">>,
                               close |-> <<")">>, parent |-> <<>>])
    /\ pattern' = pattern \o <<"(">>
    /\ op' = [name |-> "group", args |-> <<Callback>>]
    /\ ret' = None
    /\ fired' = <<>>
    /\ threw' = FALSE
    /\ UNCHANGED <<flags, maxRun, listeners, pc, input, regex, matches, count>>

\* group's callback returned: this.pattern += ')'; return this.
LeaveGroup ==
    /\ Idle
    /\ stack # <<>>
    /\ stack[Len(stack)].parent = <<>>
    /\ pattern' = pattern \o stack[Len(stack)].close
    /\ stack' = SubSeq(stack, 1, Len(stack) - 1)
    /\ op' = [name |-> "group", args |-> <<Callback>>]
    /\ ret' = This
    /\ fired' = <<>>
    /\ threw' = FALSE
    /\ UNCHANGED <<flags, maxRun, listeners, pc, input, regex, matches, count>>

\* ------------------------------------------------------- specifications

Next ==
    \/ AddEventListener
    \/ RemoveEventListener
    \/ IgnoreCase
    \/ Multiline
    \/ DotAll
    \/ Unicode
    \/ \E c \in RunArgs : RunTimes(c)
    \/ ZeroOrMore
    \/ OneOrMore
    \/ Digit
    \/ \E text \in ChainTexts : Literal(text)
    \/ \E n \in NumArgs : Exactly(n)
    \/ \E n \in NumArgs : AtLeast(n)
    \/ \E nm \in BetweenArgs : Between(nm[1], nm[2])
    \/ \E exprs \in Operands : Combine(exprs)
    \/ Build
    \/ \E in \in Inputs : Test(in)
    \/ \E in \in Inputs : Execute(in)
    \/ ExecuteLoop

Spec == Init /\ [][Next]_vars

\* Texts handed to literal() where escaping is checked.
LiteralTexts == SeqsUpTo(TextAlphabet, MaxTextLen)

\* literal(text) on a fresh builder, for every text over the
\* metacharacters and two ordinary characters.
NextLiteral == \E text \in LiteralTexts : pattern = <<>> /\ Literal(text)

SpecLiteral == Init /\ [][NextLiteral]_vars

\* combine on builders of whole words, and the result compiled and tried
\* on the words.
NextCombine ==
    \/ \E exprs \in SeqsUpTo({LiteralBuilder(w) : w \in Words}, MaxWords) :
           CombineWords(exprs)
    \/ Build
    \/ \E in \in Words : Test(in)

SpecCombine == Init /\ [][NextCombine]_vars

\* Ends handed to range and notInRange: one character or none.
RangeEnds == SeqsUpTo({"a", "z", "]", "^"}, 1)

\* Group numbers handed to backreference: -1, 0, 0.5, 1, 2, NaN.
GroupIndexes == {Num(-2), Num(0), Num(1), Num(2), Num(4), NaN}

\* Group names handed to namedBackreference.
ReferenceNames == SeqsUpTo({"a", "Z", "_", "1", "-"}, MaxTextLen)

\* The character-class methods and the backreferences, each on a builder
\* whose pattern is still empty.
NextClasses ==
    \/ \E start \in RangeEnds, end \in RangeEnds : pattern = <<>> /\ range(start, end)
    \/ \E start \in RangeEnds, end \in RangeEnds : pattern = <<>> /\ NotInRange(start, end)
    \/ \E chars \in LiteralTexts : pattern = <<>> /\ AnyOf(chars)
    \/ \E chars \in LiteralTexts : pattern = <<>> /\ NoneOf(chars)
    \/ \E chars \in LiteralTexts : pattern = <<>> /\ AnyCharacterExcept(chars)
    \/ \E n \in GroupIndexes : pattern = <<>> /\ Backreference(n)
    \/ \E name \in ReferenceNames : pattern = <<>> /\ NamedBackreference(name)

SpecClasses == Init /\ [][NextClasses]_vars

\* The fragment methods without an argument, and getPattern.
NextFragments ==
    \/ StartOfLine
    \/ EndOfLine
    \/ AnySingleCharacter
    \/ ZeroOrMore
    \/ OneOrMore
    \/ ZeroOrOne
    \/ Digit
    \/ NonDigit
    \/ WordCharacter
    \/ NonWordCharacter
    \/ Whitespace
    \/ NonWhitespace
    \/ WordBoundary
    \/ GetPattern

SpecFragments == Init /\ [][NextFragments]_vars

\* Names handed to namedCapture: n, the empty name, 1 and n-.
GroupNames == {<<"n">>, <<>>, <<"1">>, <<"n", "-">>}

\* Numbers handed to runTimes and exactly inside and around callbacks: 0
\* and 1.
GroupNumbers == {Num(0), Num(2)}

GroupInputs == {<<"a", "1">>}

\* Numbers handed to exactly there: -1 and 1.
GroupCounts == {Num(-2), Num(2)}

\* The methods that take a callback and the calls their callbacks make.
NextGroups ==
    \/ Capture
    \/ \E name \in GroupNames : NamedCapture(name)
    \/ NonCapturingGroup
    \/ PositiveLookahead
    \/ NegativeLookahead
    \/ PositiveLookbehind
    \/ NegativeLookbehind
    \/ LeaveChild
    \/ Group
    \/ LeaveGroup
    \/ Or
    \/ OrCallback
    \/ Digit
    \/ \E text \in ChainTexts : Literal(text)
    \/ GetPattern

SpecGroups == Init /\ [][NextGroups]_vars

\* One operation of every kind: appending, rejecting, setting a flag or
\* the cap, taking a callback, compiling.
NextAppend ==
    \/ Capture
    \/ LeaveChild
    \/ Group
    \/ LeaveGroup
    \/ Or
    \/ OrCallback
    \/ Digit
    \/ IgnoreCase
    \/ \E c \in GroupNumbers : RunTimes(c)
    \/ \E n \in GroupCounts : Exactly(n)
    \/ GetPattern
    \/ Build
    \/ \E in \in GroupInputs : Test(in)
    \/ \E in \in GroupInputs : Execute(in)
    \/ ExecuteLoop

SpecAppend == Init /\ [][NextAppend]_vars

\* The arguments of exactly and runTimes inside callbacks: -1 and 1.
ChildCounts == {Num(-2), Num(2)}

\* Callbacks that set flags and the cap, register listeners and make
\* rejected calls, on builders with flags, a cap and listeners of their
\* own.
NextChild ==
    \/ Capture
    \/ NamedCapture(<<"n">>)
    \/ NonCapturingGroup
    \/ PositiveLookahead
    \/ NegativeLookahead
    \/ PositiveLookbehind
    \/ NegativeLookbehind
    \/ OrCallback
    \/ LeaveChild
    \/ Group
    \/ LeaveGroup
    \/ IgnoreCase
    \/ Multiline
    \/ \E c \in ChildCounts : RunTimes(c)
    \/ \E n \in ChildCounts : Exactly(n)
    \/ Literal(<<"a">>)
    \/ AddEventListener
    \/ RemoveEventListener

SpecChild == Init /\ [][NextChild]_vars

\* ------------------------------------------------------- properties

\* The call whose effect the state shows is the named operation.
After(name) == op.name = name /\ pc = "idle"

\* The step is a call of the named operation.
Calls(name) == op'.name = name /\ pc = "idle" /\ pc' = "idle"

IsPrefix(s, t) == Len(s) <= Len(t) /\ SubSeq(t, 1, Len(s)) = s

\* What a step appended to the pattern.
Appended == SubSeq(pattern', Len(pattern) + 1, Len(pattern'))

\* The matches of an expression in an input from an offset on, in input
\* order, as the engine's own iteration (String.prototype.matchAll) lists
\* them: the search after an empty match starts one character further.
RECURSIVE AllMatchesFrom(_, _, _, _)
AllMatchesAfter(alts, fl, in, found) ==
    IF found = <<>> THEN <<>>
    ELSE <<MatchRecord(in, found[1])>>
         \o AllMatchesFrom(alts, fl, in,
                IF found[1].end = found[1].index
                THEN found[1].end + 1 ELSE found[1].end)

AllMatchesFrom(alts, fl, in, from) ==
    AllMatchesAfter(alts, fl, in, Search(alts, in, from, fl))

AllMatches(made, in) ==
    IF made.threw THEN <<>>
    ELSE AllMatchesFrom(made.alts, MatchFlags(made), in, 0)

\* C1: whenever execute(input) has returned, its result is the first c
\* matches of the built expression in input order when the cap c is set
\* and at least c matches exist, and all the matches otherwise.
C1_ExecuteReturnsFirstMatches ==
    After("execute") =>
        /\ ret.kind = "matches"
        /\ ret.value =
             Take(AllMatches(NewRegExp(pattern, FlagString(flags)), op.args[1]),
                  IF maxRun = <<>> THEN Len(op.args[1]) + 1 ELSE maxRun[1])

\* C2: every search of execute's loop that finds a match leaves the
\* expression's position strictly past where the search started, so the
\* loop ends after at most one match per position of the input.
C2_ExecuteSearchAdvances ==
    [][(pc = "execute" /\ pc' = "execute")
          => regex'.lastIndex > regex.lastIndex]_vars

\* Reading an escaped fragment back: a backslash stands for the character
\* after it.
RECURSIVE Unescape(_)
Unescape(fragment) ==
    IF fragment = <<>> THEN <<>>
    ELSE IF Head(fragment) = BS /\ Len(fragment) >= 2
         THEN <<fragment[2]>> \o Unescape(SubSeq(fragment, 3, Len(fragment)))
         ELSE <<Head(fragment)>> \o Unescape(Tail(fragment))

\* Every metacharacter of the fragment is the second half of a pair whose
\* first half is a backslash, and a backslash escapes nothing else.
RECURSIVE WellEscaped(_)
WellEscaped(fragment) ==
    IF fragment = <<>> THEN TRUE
    ELSE IF Head(fragment) = BS
         THEN /\ Len(fragment) >= 2
              /\ fragment[2] \in MetaChars
              /\ WellEscaped(SubSeq(fragment, 3, Len(fragment)))
         ELSE Head(fragment) \notin MetaChars /\ WellEscaped(Tail(fragment))

\* The texts that differ from the given one in one character.
Variants(text) ==
    {[text EXCEPT ![k] = c] : k \in DOMAIN text, c \in TextAlphabet} \ {text}

\* The fragment compiles, matches the whole of the text, and matches
\* nowhere in a text that differs from it in one character.
MatchesOnlyItself(made, text) ==
    /\ ~made.threw
    /\ Search(made.alts, text, 0, MatchFlags(made))
         = <<[index |-> 0, end |-> Len(text)]>>
    /\ \A v \in Variants(text) :
           Search(made.alts, v, 0, MatchFlags(made)) = <<>>

EscapedForm(text, fragment) ==
    /\ Len(fragment)
         = Len(text) + Cardinality({k \in DOMAIN text : text[k] \in MetaChars})
    /\ WellEscaped(fragment)
    /\ Unescape(fragment) = text
    /\ MatchesOnlyItself(NewRegExp(fragment, <<"g">>), text)

\* C3: literal(text) appends the text with one backslash before each of
\* the fourteen metacharacters and every other character unchanged: the
\* appended fragment has no unescaped metacharacter, reads back as the
\* text, and as an expression matches the text and no one-character
\* variant of it.
C3_LiteralEscapes ==
    [][Calls("literal")
          => /\ IsPrefix(pattern, pattern')
             /\ EscapedForm(op'.args[1], Appended)
             /\ fired' = <<>> /\ ret' = This]_vars

\* literal("\.") has appended \\\. to the pattern.
C3_Witness ==
    /\ After("literal")
    /\ op.args[1] = <<BS, ".">>
    /\ pattern = <<BS, BS, BS, ".">>

\* A number that is an integer and not negative.
NonNegativeInteger(x) == ~x.nan /\ x.h % 2 = 0 /\ x.h >= 0

\* The arguments between accepts: two such integers, the second not below
\* the first.
OrderedBounds(n, m) ==
    NonNegativeInteger(n) /\ NonNegativeInteger(m) /\ m.h >= n.h

Decimal(x) == NatToString(x.h \div 2)

\* The step appended the fragment without a failure event and returned
\* the builder it was called on.
Appends(fragment) ==
    /\ pattern' = pattern \o fragment
    /\ fired' = <<>>
    /\ ~threw'
    /\ ret' = This
    /\ UNCHANGED <<flags, maxRun, listeners>>

\* C4: exactly(n) and atLeast(n) with an integer n >= 0, and between(n, m)
\* with integers 0 <= n <= m, append exactly {n}, {n,} and {n,m}, fire no
\* failure event and return the same builder.
C4_ValidQuantifiersAppend ==
    [][/\ (Calls("exactly") /\ NonNegativeInteger(op'.args[1]))
            => Appends(<<"{">> \o Decimal(op'.args[1]) \o <<"}">>)
       /\ (Calls("atLeast") /\ NonNegativeInteger(op'.args[1]))
            => Appends(<<"{">> \o Decimal(op'.args[1]) \o <<",", "}">>)
       /\ (Calls("between") /\ OrderedBounds(op'.args[1], op'.args[2]))
            => Appends(<<"{">> \o Decimal(op'.args[1]) \o <<",">>
                       \o Decimal(op'.args[2]) \o <<"}">>)]_vars

\* literal("a").exactly(0) has appended {0}.
C4_Witness ==
    /\ After("exactly")
    /\ op.args = <<Int2Num(0)>>
    /\ pattern = <<"a", "{", "0", "}">>
    /\ fired = <<>>

\* The step left pattern, flags and cap alone and fired one failure event
\* with the given message.
Rejects(message) ==
    /\ UNCHANGED <<pattern, flags, maxRun>>
    /\ fired' = <<Event(<<message>>)>>

\* C5: exactly(n) and atLeast(n) with a negative or non-integer n, and
\* between(n, m) with a non-integer n or m, a negative n or m < n, leave
\* pattern, flags and cap unchanged and fire exactly one failure event
\* with the method's message.
C5_InvalidQuantifiersRejected ==
    [][/\ (Calls("exactly") /\ ~NonNegativeInteger(op'.args[1]))
            => Rejects("exactly expects a non-negative integer.")
       /\ (Calls("atLeast") /\ ~NonNegativeInteger(op'.args[1]))
            => Rejects("atLeast expects a non-negative integer.")
       /\ (Calls("between") /\ ~OrderedBounds(op'.args[1], op'.args[2]))
            => Rejects("between expects two non-negative integers where m >= n.")]_vars

\* literal("a").between(1, 0) has fired the event and kept the pattern.
C5_Witness ==
    /\ After("between")
    /\ op.args = <<Int2Num(1), Int2Num(0)>>
    /\ pattern = <<"a">>
    /\ Len(fired) = 1

\* The engine rejects the builder's pattern.
Malformed == ~ParsePattern(pattern, "u" \in Range(flags)).ok

\* Inputs tried on the fallback expression; x is the character its source
\* names.
ProbeInputs == Inputs \cup {<<"x">>, <<"x", "x">>, <<"a", "x">>}

\* One failure event, whose message starts with the given text.
FiredOne(prefix) ==
    /\ Len(fired) = 1
    /\ fired[1].type = "error"
    /\ fired[1].detail[1] = prefix

\* C6: when the accumulated pattern is malformed, build() does not throw,
\* fires a failure event and returns an expression that matches no input;
\* test(input) then returns false for every input.
C6_MalformedPatternIsCaught ==
    /\ (After("build") /\ Malformed)
         => /\ ~threw
            /\ FiredOne("Invalid regex pattern: ")
            /\ ret.kind = "regex"
            /\ \A in \in ProbeInputs :
                   /\ ~RegExpTest(ret.value, in)
                   /\ AllMatches(ret.value, in) = <<>>
    /\ (After("test") /\ Malformed)
         => /\ ~threw
            /\ FiredOne("Invalid regex pattern: ")
            /\ ret.kind = "boolean"
            /\ ret.value = FALSE

\* zeroOrMore().build(): the dangling * made build() return the fallback.
C6_Witness ==
    /\ After("build")
    /\ pattern = <<"*">>
    /\ ret.kind = "regex"
    /\ ret.value.source = SentinelSource
    /\ Len(fired) = 1

\* The operations that return the builder they are called on.
Chainable ==
    {"ignoreCase", "multiline", "dotAll", "unicode", "runTimes", "zeroOrMore",
     "oneOrMore", "digit", "literal", "exactly", "atLeast", "between"}

\* The fragments of the appending operations that take no argument.
FixedFragment ==
    [zeroOrMore |-> <<"*">>, oneOrMore |-> <<"+">>, digit |-> <<BS, "d">>]

\* C7: no operation throws, with or without listeners; a call that
\* reports a failure leaves the builder as it was and, when chainable,
\* returns the same builder; and a valid appending call made after a
\* reported failure appends its fragment as after any other call.
C7_NoOperationThrows ==
    /\ [](~threw)
    /\ [][/\ (fired' # <<>> /\ op' # op)
               => /\ builder' = builder
                  /\ op'.name \in Chainable => ret' = This
          /\ (fired # <<>> /\ Calls(op'.name)
                /\ op'.name \in DOMAIN FixedFragment)
               => Appends(FixedFragment[op'.name])
          /\ (fired # <<>> /\ Calls("exactly")
                /\ NonNegativeInteger(op'.args[1]))
               => Appends(<<"{">> \o Decimal(op'.args[1]) \o <<"}">>)]_vars

\* digit().runTimes(0) on a builder nobody listens to: the failure was
\* dispatched, nothing was thrown and the builder came back.
C7_Witness ==
    /\ After("runTimes")
    /\ listeners = 0
    /\ fired # <<>>
    /\ ~threw
    /\ ret = This
    /\ pattern = <<BS, "d">>

\* A number that is an integer and above zero.
PositiveInteger(x) == ~x.nan /\ x.h % 2 = 0 /\ x.h > 0

RunTimesMessage == <<"runTimes expects a positive integer.">>

\* C8, as the specification words it: after runTimes(count) with a
\* positive integer the cap is count; after runTimes(count) with zero, a
\* negative or a non-integer, in any builder state, the failure event was
\* fired and the cap is unset.
C8_InvalidRunTimesLeavesCapUnset ==
    After("runTimes") =>
        IF PositiveInteger(op.args[1])
        THEN maxRun = <<op.args[1].h \div 2>> /\ fired = <<>>
        ELSE maxRun = <<>> /\ fired = <<Event(RunTimesMessage)>>

\* C8: runTimes(count) with a positive integer stores count as the cap
\* and fires nothing; with zero, a negative or a non-integer it fires one
\* failure event with detail 'runTimes expects a positive integer.' and
\* leaves the cap as it was, set or unset.
C8_InvalidRunTimesKeepsCap ==
    [][Calls("runTimes")
          => /\ UNCHANGED <<pattern, flags>>
             /\ ret' = This
             /\ IF PositiveInteger(op'.args[1])
                THEN maxRun' = <<op'.args[1].h \div 2>> /\ fired' = <<>>
                ELSE maxRun' = maxRun /\ fired' = <<Event(RunTimesMessage)>>]_vars

\* runTimes(2).runTimes(0.5): the second call fired the event and the cap
\* is still 2.
C8_Witness ==
    /\ After("runTimes")
    /\ op.args = <<Num(1)>>
    /\ fired = <<Event(RunTimesMessage)>>
    /\ maxRun = <<2>>

\* The flag each flag method stands for.
FlagOf == [ignoreCase |-> "i", multiline |-> "m", dotAll |-> "s", unicode |-> "u"]

\* C9: the flag set of every builder state, combine's result included,
\* contains g and holds no flag twice; a flag method adds its own flag and
\* nothing else, and changes nothing when the flag is already there.
C9_FlagSetGrowsByOwnFlag ==
    /\ []("g" \in Range(flags) /\ Cardinality(Range(flags)) = Len(flags))
    /\ [][(Calls(op'.name) /\ op'.name \in DOMAIN FlagOf)
              => /\ Range(flags') = Range(flags) \cup {FlagOf[op'.name]}
                 /\ FlagOf[op'.name] \in Range(flags) => flags' = flags
                 /\ UNCHANGED <<pattern, maxRun>>
                 /\ fired' = <<>>
                 /\ ret' = This]_vars

\* multiline().ignoreCase().ignoreCase(): i is there once.
C9_Witness ==
    /\ After("ignoreCase")
    /\ flags = <<"g", "m", "i">>

\* The order the specification calls canonical.
CanonicalOrder == <<"g", "i", "m", "s", "u">>

Canonical(f) == SelectSeq(CanonicalOrder, LAMBDA c : c \in Range(f))

\* C10, as the specification words it: the flag string build() renders
\* lists the active flags in canonical order g i m s u, in whatever order
\* the flag methods were called.
C10_RenderedFlagsCanonical ==
    After("build") => FlagString(flags) = Canonical(flags)

\* C10: the flag string build() renders lists every active flag once, g
\* first and the others in the order the flag methods first added them;
\* the flags property of the expression build() returns for a well-formed
\* pattern lists the same flags in canonical order g i m s u.
C10_BuiltFlagsCanonical ==
    /\ [](After("build")
            => /\ Range(FlagString(flags)) = Range(flags)
               /\ Len(FlagString(flags)) = Cardinality(Range(flags))
               /\ FlagString(flags)[1] = "g"
               /\ ~Malformed
                    => /\ ret.kind = "regex"
                       /\ ret.value.flags = Canonical(flags))
    /\ [][(Calls(op'.name) /\ op'.name \in DOMAIN FlagOf)
              => IsPrefix(FlagString(flags), FlagString(flags'))]_vars

\* multiline().ignoreCase().build(): gmi was rendered and the
\* expression's flags read gim.
C10_Witness ==
    /\ After("build")
    /\ FlagString(flags) = <<"g", "m", "i">>
    /\ ret.kind = "regex"
    /\ ret.value.flags = <<"g", "i", "m">>

\* The step is the return of the named method from its callback.
Returns(name) ==
    /\ Len(stack') = Len(stack) - 1
    /\ op'.name = name

\* The step is the named method calling its callback on a child.
CallsBack(name) ==
    /\ Len(stack') = Len(stack) + 1
    /\ stack'[Len(stack')].method = name
    /\ stack'[Len(stack')].parent # <<>>

\* The builder that waits for the running callback, as a record.
Parent == stack[Len(stack)].parent[1]

\* A letter or underscore, then letters, digits and underscores.
ValidName(name) ==
    /\ name # <<>>
    /\ IsLetter(name[1]) \/ name[1] = "_"
    /\ \A k \in DOMAIN name : IsLetter(name[k]) \/ IsDigit(name[k]) \/ name[k] = "_"

\* What each grouping method without a name opens its group with.
GroupSyntax ==
    [capture |-> <<"(">>,
     nonCapturingGroup |-> <<"(", "?", ":">>,
     positiveLookahead |-> <<"(", "?", "=">>,
     negativeLookahead |-> <<"(", "?", "!">>,
     positiveLookbehind |-> <<"(", "?", "<", "=">>,
     negativeLookbehind |-> <<"(", "?", "<", "!">>]

GroupingMethods == DOMAIN GroupSyntax \cup {"namedCapture"}

\* Every unescaped ) closes an unescaped ( before it, and none stays open.
RECURSIVE BalancedFrom(_, _)
BalancedFrom(p, depth) ==
    IF p = <<>> THEN depth = 0
    ELSE IF Head(p) = BS THEN BalancedFrom(SubSeq(p, 3, Len(p)), depth)
    ELSE IF Head(p) = "(" THEN BalancedFrom(Tail(p), depth + 1)
    ELSE IF Head(p) = ")" THEN depth > 0 /\ BalancedFrom(Tail(p), depth - 1)
    ELSE BalancedFrom(Tail(p), depth)

Balanced(p) == BalancedFrom(p, 0)

\* The step appended open, the child's pattern and ) to the waiting
\* builder and changed nothing else of it.
AppendsGroup(open) ==
    /\ pattern' = Parent.pattern \o open \o pattern \o <<")">>
    /\ flags' = Parent.flags
    /\ maxRun' = Parent.maxRun
    /\ ret' = This
    /\ fired' = <<>>

\* C11: each grouping method calls its callback on a fresh, empty child
\* while its own builder waits unchanged, and on return appends the
\* child's pattern P as (P), (?<name>P), (?:P), (?=P), (?!P), (?<=P) or
\* (?<!P); with every callback returned the pattern is properly nested.
C11_GroupingWrapsChild ==
    /\ [][/\ \A m \in GroupingMethods :
                CallsBack(m)
                  => /\ pattern' = <<>> /\ flags' = <<"g">> /\ maxRun' = <<>>
                     /\ stack'[Len(stack')].parent[1] = Waiting(pattern)
          /\ \A m \in DOMAIN GroupSyntax :
                Returns(m) => AppendsGroup(GroupSyntax[m])
          /\ (Returns("namedCapture") /\ ValidName(op'.args[1]))
                => AppendsGroup(<<"(", "?", "<">> \o op'.args[1] \o <<">">>)]_vars
    /\ [](stack = <<>> => Balanced(pattern))

\* capture(c => c.positiveLookahead(d => d.digit())) has returned.
C11_Witness ==
    /\ After("capture")
    /\ stack = <<>>
    /\ pattern = <<"(", "(", "?", "=", BS, "d", ")", ")">>

\* C12: when namedCapture(name, callback) returns for a name that is
\* empty, starts with a digit or holds a character other than letters,
\* digits and underscore, a failure event was fired and the pattern of the
\* builder it was called on is what it was before the call.
C12_InvalidNameRejected ==
    [][(Returns("namedCapture") /\ ~ValidName(op'.args[1]))
          => /\ pattern' = Parent.pattern
             /\ fired' # <<>>]_vars

Cat == <<"c", "a", "t">>

Dog == <<"d", "o", "g">>

Bird == <<"b", "i", "r", "d">>

\* C14: as combine's documentation has it, the builder combine returns
\* for the builders of literal("cat") and literal("dog") has the pattern
\* cat|dog, and test on it is true for "cat", true for "dog" and false
\* for "bird".
C14_CombineAlternates ==
    (After("combine") /\ op.args = <<LiteralBuilder(Cat), LiteralBuilder(Dog)>>)
        => /\ pattern = Cat \o <<"|">> \o Dog
           /\ TestResult(pattern, flags, Cat).value
           /\ TestResult(pattern, flags, Dog).value
           /\ ~TestResult(pattern, flags, Bird).value

\* The patterns of the builders that wait for a callback, outermost
\* first.
RECURSIVE WaitingPatterns(_)
WaitingPatterns(st) ==
    IF st = <<>> THEN <<>>
    ELSE (IF Head(st).parent = <<>> THEN <<>> ELSE <<Head(st).parent[1].pattern>>)
         \o WaitingPatterns(Tail(st))

\* The patterns of all the builders in use: those that wait, then the one
\* the calls work on.
LivePatterns == WaitingPatterns(stack) \o <<pattern>>

\* C15: in every step of every operation, valid or rejected, the pattern
\* each builder had before the step is a prefix of the pattern it has
\* after it (combine makes a new builder and touches none).
C15_PatternAppendOnly ==
    [][op'.name # "combine"
          => \A k \in 1..Min(Len(LivePatterns), Len(LivePatterns')) :
                 IsPrefix(LivePatterns[k], LivePatterns'[k])]_vars

\* digit().capture(c => c.digit()) has returned.
C15_Witness ==
    /\ After("capture")
    /\ stack = <<>>
    /\ pattern = <<BS, "d", "(", BS, "d", ")">>

\* The fixed token of each fragment method without an argument.
FragmentToken ==
    [startOfLine |-> <<"^">>, endOfLine |-> <<"$">>,
     anySingleCharacter |-> <<".">>,
     zeroOrMore |-> <<"*">>, oneOrMore |-> <<"+">>, zeroOrOne |-> <<"?">>,
     digit |-> <<BS, "d">>, nonDigit |-> <<BS, "D">>,
     wordCharacter |-> <<BS, "w">>, nonWordCharacter |-> <<BS, "W">>,
     whitespace |-> <<BS, "s">>, nonWhitespace |-> <<BS, "S">>,
     wordBoundary |-> <<BS, "b">>]

\* The pattern is some of the fixed tokens one after the other.
RECURSIVE TokenSequence(_)
TokenSequence(p) ==
    \/ p = <<>>
    \/ \E m \in DOMAIN FragmentToken :
           /\ IsPrefix(FragmentToken[m], p)
           /\ TokenSequence(SubSeq(p, Len(FragmentToken[m]) + 1, Len(p)))

\* C16: starting from the empty pattern of a fresh builder, every call of
\* a fragment method without an argument appends its fixed token and
\* nothing else, so the pattern is the tokens of the calls in call order;
\* getPattern() returns that pattern, fires nothing and changes nothing.
C16_FragmentsConcatenate ==
    /\ [][/\ (Calls(op'.name) /\ op'.name \in DOMAIN FragmentToken)
               => Appends(FragmentToken[op'.name])
          /\ Calls("getPattern")
               => /\ UNCHANGED builder
                  /\ fired' = <<>>
                  /\ ~threw'
                  /\ ret' = [kind |-> "string", value |-> pattern]]_vars
    /\ [](TokenSequence(pattern))

\* startOfLine().digit().oneOrMore().endOfLine().getPattern() returned
\* ^\d+$.
C16_Witness ==
    /\ After("getPattern")
    /\ ret.kind = "string"
    /\ ret.value = <<"^", BS, "d", "+", "$">>

\* C17: or() appends the one character | to the builder it is called on;
\* or(callback) runs the callback on a fresh child while its own builder
\* waits with | appended, and on return appends the child's pattern, so
\* that the pattern after is the pattern before, |, the child's pattern.
C17_OrAppendsSeparator ==
    [][/\ (op'.name = "or" /\ op'.args = <<>> /\ Len(stack') = Len(stack))
            => Appends(<<"|">>)
       /\ CallsBack("or")
            => /\ pattern' = <<>> /\ flags' = <<"g">> /\ maxRun' = <<>>
               /\ stack'[Len(stack')].parent[1] = Waiting(pattern \o <<"|">>)
       /\ Returns("or")
            => /\ pattern' = Parent.pattern \o pattern
               /\ flags' = Parent.flags
               /\ maxRun' = Parent.maxRun
               /\ ret' = This
               /\ fired' = <<>>]_vars

\* literal("a").or(alt => alt.digit()) has returned.
C17_Witness ==
    /\ After("or")
    /\ op.args = <<Callback>>
    /\ stack = <<>>
    /\ pattern = <<"a", "|", BS, "d">>

\* The step is group calling its callback.
GroupCallsBack ==
    /\ Len(stack') = Len(stack) + 1
    /\ stack'[Len(stack')].method = "group"

\* C18: group(callback) appends ( to the builder it is called on and
\* hands that same builder, not a child, to the callback, whose calls go
\* on appending to it; on return it appends ) to it: group(g =>
\* g.literal(x).or().literal(y)) on pattern P leaves P(x|y) escaped.
C18_GroupUsesSameBuilder ==
    [][/\ GroupCallsBack
            => /\ pattern' = pattern \o <<"(">>
               /\ stack'[Len(stack')].parent = <<>>
               /\ UNCHANGED <<flags, maxRun, listeners>>
       /\ Returns("group")
            => /\ stack[Len(stack)].parent = <<>>
               /\ pattern' = pattern \o <<")">>
               /\ UNCHANGED <<flags, maxRun, listeners>>
               /\ ret' = This
               /\ fired' = <<>>]_vars

\* group(g => g.literal("a").or().literal("a")) has returned.
C18_Witness ==
    /\ After("group")
    /\ stack = <<>>
    /\ pattern = <<"(", "a", "|", "a", ")">>

BackreferenceMessage ==
    "backreference expects a positive integer representing the group number."

NamedBackreferenceMessage ==
    "namedBackreference expects a valid group name consisting of letters, numbers, and underscores, not starting with a number."

\* C19: backreference(n) appends \n for an integer n >= 1 and
\* namedBackreference(name) appends \k<name> for a name of letters, digits
\* and underscores that does not start with a digit; for any other
\* argument one failure event with the method's message is fired and the
\* pattern, flags and cap stay as they were.
C19_BackreferencesValidated ==
    [][/\ Calls("backreference")
            => IF PositiveInteger(op'.args[1])
               THEN Appends(<<BS>> \o Decimal(op'.args[1]))
               ELSE Rejects(BackreferenceMessage)
       /\ Calls("namedBackreference")
            => IF ValidName(op'.args[1])
               THEN Appends(<<BS, "k", "<">> \o op'.args[1] \o <<">">>)
               ELSE Rejects(NamedBackreferenceMessage)]_vars

\* namedBackreference("1") was rejected.
C19_Witness ==
    /\ After("namedBackreference")
    /\ op.args = <<<<"1">>>>
    /\ fired = <<Event(<<NamedBackreferenceMessage>>)>>
    /\ pattern = <<>>

\* The text is the escaped form of chars: as long as chars and its
\* metacharacters together, without an unescaped metacharacter, reading
\* back as chars.
IsEscapeOf(chars, text) ==
    /\ Len(text)
         = Len(chars) + Cardinality({k \in DOMAIN chars : chars[k] \in MetaChars})
    /\ WellEscaped(text)
    /\ Unescape(text) = chars

\* The appended text is open, the escaped form of chars, and ].
AppendsClass(open, chars) ==
    /\ IsPrefix(pattern, pattern')
    /\ IsPrefix(open, Appended)
    /\ Len(Appended) > Len(open)
    /\ Appended[Len(Appended)] = "]"
    /\ IsEscapeOf(chars, SubSeq(Appended, Len(open) + 1, Len(Appended) - 1))
    /\ fired' = <<>>
    /\ ret' = This

\* C20: anyOf(chars) appends [E], noneOf(chars) and
\* anyCharacterExcept(chars) append [^E], E being chars escaped as literal
\* escapes it; range(a, b) appends [a-b] and notInRange(a, b) appends
\* [^a-b] with a and b as given.
C20_ClassesBracketEscaped ==
    [][/\ Calls("anyOf") => AppendsClass(<<"[">>, op'.args[1])
       /\ Calls("noneOf") => AppendsClass(<<"[", "^">>, op'.args[1])
       /\ Calls("anyCharacterExcept") => AppendsClass(<<"[", "^">>, op'.args[1])
       /\ Calls("range")
            => Appends(<<"[">> \o op'.args[1] \o <<"-">> \o op'.args[2] \o <<"]">>)
       /\ Calls("notInRange")
            => Appends(<<"[", "^">> \o op'.args[1] \o <<"-">> \o op'.args[2]
                       \o <<"]">>)]_vars

\* anyCharacterExcept("]a") has appended [^\]a].
C20_Witness ==
    /\ After("anyCharacterExcept")
    /\ op.args = <<<<"]", "a">>>>
    /\ pattern = <<"[", "^", BS, "]", "a", "]">>

\* The methods that hand a child builder to their callback.
ChildMethods == GroupingMethods \cup {"or"}

\* The builder that waits for the callback that was just called.
ParentAfter == stack'[Len(stack')].parent[1]

\* The flag set, the cap and the listeners of the two are the same.
SameSettings(waiting, f, m, l) ==
    /\ waiting.flags = f
    /\ waiting.maxRun = m
    /\ waiting.listeners = l

\* C21: a capture-style method or or(callback) takes from the child only
\* its pattern: when its callback returns, the parent's flag set, cap and
\* listeners are what they were when the callback was called, whatever was
\* called on the child, and the parent's pattern is what it was with the
\* child's pattern inside the method's syntax after it.
C21_ChildLeavesParentAlone ==
    [][/\ \A m \in ChildMethods :
            /\ CallsBack(m)
                 => /\ SameSettings(ParentAfter, flags, maxRun, listeners)
                    /\ IsPrefix(pattern, ParentAfter.pattern)
                    /\ SubSeq(stack', 1, Len(stack)) = stack
            /\ (Returns(m) /\ stack[Len(stack)].parent # <<>>)
                 => /\ SameSettings(Parent, flags', maxRun', listeners')
                    /\ pattern' = Parent.pattern \o stack[Len(stack)].open
                                     \o pattern \o stack[Len(stack)].close
                    /\ stack' = SubSeq(stack, 1, Len(stack) - 1)
       /\ (Len(stack') = Len(stack)) => (stack' = stack)]_vars

\* Inside capture's callback ignoreCase and runTimes(1) were called on the
\* child, and the waiting parent has neither the flag nor a cap.
C21_Witness ==
    /\ After("runTimes")
    /\ Len(stack) = 1
    /\ stack[1].method = "capture"
    /\ flags = <<"g", "i">>
    /\ maxRun = <<1>>
    /\ SameSettings(Parent, <<"g">>, <<>>, 0)

\* Each match begins at or after the end of the one before it, and no two
\* of them have the same offset and the same text.
StrictlyOrdered(ms) ==
    /\ \A k \in 1..(Len(ms) - 1) : ms[k].index + Len(ms[k].text) <= ms[k + 1].index
    /\ \A j, k \in 1..Len(ms) : (j < k) => (ms[j] # ms[k])

\* C22: whenever execute(input) has returned, the matches of its result
\* are in strict order of position and none of them occurs twice, for
\* every pattern and every cap.
C22_MatchesStrictlyOrdered ==
    (After("execute") /\ ret.kind = "matches") => StrictlyOrdered(ret.value)

\* ---------------------------------------------------------------- replace

\* The input with each of the matches ms, which are in order and do not
\* overlap, replaced by the replacement; from is the offset reached.
RECURSIVE Spliced(_, _, _, _)
Spliced(in, ms, from, replacement) ==
    IF ms = <<>> THEN SubSeq(in, from + 1, Len(in))
    ELSE SubSeq(in, from + 1, ms[1].index) \o replacement
         \o Spliced(in, Tail(ms), ms[1].index + Len(ms[1].text), replacement)

\* input.replace(regex, replacement) for a replacement string without $:
\* every match is replaced when the g flag is set, the first one
\* otherwise; the search after an empty match starts one character
\* further.
StringReplace(made, in, replacement) ==
    Spliced(in,
            IF IsGlobal(made) THEN AllMatches(made, in)
            ELSE Take(AllMatches(made, in), 1),
            0, replacement)

ReplaceBuilt(built, in, replacement) ==
    IF built.threw THEN [value |-> <<>>, fired |-> built.fired, threw |-> TRUE]
    ELSE [value |-> StringReplace(built.regex, in, replacement),
          fired |-> built.fired, threw |-> FALSE]

\* replace(input, replacement): const regex = this.build(); return
\* input.replace(regex, replacement).
ReplaceResult(p, f, in, replacement) == ReplaceBuilt(BuildResult(p, f), in, replacement)

Replace(in, replacement) ==
    /\ Idle
    /\ \E replaced \in {ReplaceResult(pattern, flags, in, replacement)} :
           /\ ret' = IF replaced.threw THEN None
                     ELSE [kind |-> "string", value |-> replaced.value]
           /\ fired' = replaced.fired
           /\ threw' = replaced.threw
    /\ op' = [name |-> "replace", args |-> <<in, replacement>>]
    /\ UNCHANGED <<builder, frame>>

\* Replacement strings: a character and the empty string.
Replacements == {<<"x">>, <<>>}

\* The caps of the builders the terminal operations run on: 1 and 2.
TerminalCaps == {Num(2), Num(4)}

\* Builders with well-formed and malformed patterns, flags and caps, and
\* every terminal and inspection operation on them, in any order.
NextTerminal ==
    \/ Digit
    \/ ZeroOrMore
    \/ \E text \in ChainTexts : Literal(text)
    \/ IgnoreCase
    \/ \E c \in TerminalCaps : RunTimes(c)
    \/ Build
    \/ \E in \in Inputs : Test(in)
    \/ \E in \in Inputs : Execute(in)
    \/ ExecuteLoop
    \/ \E in \in Inputs, replacement \in Replacements : Replace(in, replacement)
    \/ GetPattern

SpecTerminal == Init /\ [][NextTerminal]_vars

\* The operations that compile or read the pattern.
TerminalOps == {"build", "test", "execute", "replace", "getPattern"}

\* What execute's loop collects from the expression made, which has just
\* been built, on the input under the cap, within fuel searches: found is
\* the outcome of the search, acc the matches so far.
RECURSIVE Collect(_, _, _, _, _)
Collected(found, in, cap, acc, fuel) ==
    IF found.match = <<>> THEN acc
    ELSE IF Break(cap, Len(acc) + 1) \/ fuel = 0
         THEN Append(acc, MatchRecord(in, found.match[1]))
         ELSE Collect(found.regex, in, cap,
                      Append(acc, MatchRecord(in, found.match[1])), fuel - 1)

Collect(made, in, cap, acc, fuel) ==
    Collected(RegExpExec(made, in), in, cap, acc, fuel)

\* The step calls the named operation again with the arguments of the
\* call before it.
CallsAgain(name) == After(name) /\ Calls(name) /\ op'.args = op.args

\* C23: build, test, execute, replace and getPattern leave the pattern,
\* the flag set and the cap as they are, whether the pattern compiles or
\* not; a repeated build, test, replace or getPattern gives the result
\* it gave before, execute's result is what its loop collects from a
\* fresh build of the builder as it stands, and digit() after any of
\* them appends to the pattern they left.
C23_TerminalOpsLeaveBuilder ==
    [][/\ (op'.name \in TerminalOps) => UNCHANGED <<pattern, flags, maxRun>>
       /\ \A name \in TerminalOps \ {"execute"} :
             CallsAgain(name) => (ret' = ret /\ fired' = fired)
       /\ (pc = "execute" /\ pc' = "idle")
             => /\ ret'.kind = "matches"
                /\ ret'.value = Collect(BuildResult(pattern, flags).regex, input,
                                        maxRun, <<>>, MaxIter)
       /\ (op.name \in TerminalOps /\ Calls("digit"))
             => pattern' = pattern \o <<BS, "d">>]_vars

\* replace("a1", "x") has returned "ax" on the builder of \d with cap 1,
\* which still has its pattern and its cap.
C23_Witness ==
    /\ After("replace")
    /\ op.args = <<<<"a", "1">>, <<"x">>>>
    /\ ret = [kind |-> "string", value |-> <<"a", "x">>]
    /\ pattern = <<BS, "d">>
    /\ flags = <<"g">>
    /\ maxRun = <<1>>

\* The running callback works on a child of the builder that waits.
InChild == stack # <<>> /\ stack[Len(stack)].parent # <<>>

\* The running callback works on the builder group was called on.
InGroup == stack # <<>> /\ stack[Len(stack)].parent = <<>>

\* The step is a call, inside the running callback, that reports a
\* validation failure.
FailsInside ==
    /\ stack # <<>>
    /\ stack' = stack
    /\ op'.name \in {"exactly", "runTimes"}
    /\ fired' # <<>>

\* C24: the child a capture-style method or or(callback) hands to its
\* callback has no listeners, whatever listeners the parent has, and the
\* parent keeps its own; a rejected call inside the callback fires one
\* event on the child, seen by nobody unless the callback registered a
\* listener on the child, and leaves the child's pattern as it is, which
\* the parent wraps and appends when the callback returns.  Inside
\* group(callback) the builder and its listeners are the ones group was
\* called on, and they see the event.
C24_ChildFailuresStayWithChild ==
    [][/\ \A m \in ChildMethods :
            /\ CallsBack(m) => (listeners' = 0 /\ ParentAfter.listeners = listeners)
            /\ (Returns(m) /\ InChild)
                 => /\ listeners' = Parent.listeners
                    /\ pattern' = Parent.pattern \o stack[Len(stack)].open
                                     \o pattern \o stack[Len(stack)].close
                    /\ fired' = <<>>
       /\ GroupCallsBack => (listeners' = listeners)
       /\ FailsInside
            => /\ Len(fired') = 1
               /\ UNCHANGED <<pattern, flags, maxRun, listeners>>
       /\ (FailsInside /\ InChild /\ listeners = 0) => (Observed' = <<>>)
       /\ (FailsInside /\ InGroup /\ listeners > 0) => (Observed' = fired')]_vars

\* On a builder with a listener, capture's callback called literal("a")
\* and then exactly(-1) on the child: the event was fired, no listener
\* saw it, and the child's pattern is still a.
C24_Witness ==
    /\ After("exactly")
    /\ op.args = <<Num(-2)>>
    /\ Len(stack) = 1
    /\ stack[1].method = "capture"
    /\ Parent.listeners = 1
    /\ listeners = 0
    /\ Len(fired) = 1
    /\ Observed = <<>>
    /\ pattern = <<"a">>

====
